---------------------------- MODULE Spec2Model ----------------------------
(* A model of lib/authn/impl.go: the stateless OAuth2 / signed-cookie      *)
(* authentication gateway of smallpoint.  Tokens are compact JWTs signed   *)
(* with HS256 under one of the Authenticator's shared secrets.  The        *)
(* server keeps no per-session state: the only server-side state is the    *)
(* shared secret list, and the clock.  The browser holds at most one       *)
(* auth cookie and one Login State Token on its way through the provider.  *)
EXTENDS Integers, Sequences, FiniteSets, TLC

(***************************************************************************)
(* Program constants                                                       *)
(***************************************************************************)
cookieExpirationHours == 2
maxAgeSecondsRedirCookie == 300
SecondsPerHour == 3600
redirCookieName == "redir_cookie"
\* Declared elsewhere in package authn; only its uses are in impl.go.  Its
\* value is taken to differ from redirCookieName.
AuthCookieName == "auth_cookie"

StatusFound == 302
StatusUnauthorized == 401
StatusMethodNotAllowed == 405
StatusInternalServerError == 500
\* No call to WriteHeader / Write was made on the ResponseWriter.
NothingWritten == 0

(***************************************************************************)
(* Bounds of the model                                                     *)
(***************************************************************************)
StartTime == 1000
MaxTicks == 2
MaxRotations == 1

\* The amounts by which the clock advances between two requests.
TickSteps == {1, maxAgeSecondsRedirCookie, cookieExpirationHours * SecondsPerHour}

\* Key i is the secret published by rotation i (key 1 is the first one).
Keys == 1 .. (MaxRotations + 1)

appName == "smallpoint"
OtherIssuer == "otherapp"
URLs == {"/pageA", "/pageB"}

(***************************************************************************)
(* JSON claims.  A claims struct is a record of all its fields; the JSON   *)
(* payload holds only the non-zero ones (every field is omitempty), and    *)
(* decoding into a struct leaves the zero value in the absent fields and   *)
(* ignores the unknown ones.                                               *)
(***************************************************************************)
IntFields == {"exp", "nbf", "iat"}
StateJWTFields == {"iss", "sub", "aud", "exp", "nbf", "iat", "return_url"}
CookieJWTFields == {"iss", "sub", "username", "aud", "exp", "nbf", "iat"}

ZeroOf(f) == IF f \in IntFields THEN 0 ELSE IF f = "aud" THEN <<>> ELSE ""

IsZero(f, v) ==
    IF f \in IntFields THEN v = 0 ELSE IF f = "aud" THEN v = <<>> ELSE v = ""

\* json.Marshal of a claims struct whose fields are all omitempty
Marshal(claims) ==
    LET kept == {f \in DOMAIN claims : ~IsZero(f, claims[f])}
    IN  [f \in kept |-> claims[f]]

\* json.Unmarshal of a payload into a struct with the given fields
Unmarshal(payload, fields) ==
    [f \in fields |-> IF f \in DOMAIN payload THEN payload[f] ELSE ZeroOf(f)]

(***************************************************************************)
(* HS256 and the compact serialization.  The MAC is ideal: a tag is valid  *)
(* for a payload under a key exactly when it was computed from that key    *)
(* and that payload.  A compact token is header.payload.signature; the     *)
(* empty string is <<>> and any other string that does not parse as a JWS  *)
(* is a sequence of another length.                                        *)
(***************************************************************************)
HS256(key, payload) == [key |-> key, over |-> payload]

JWTHeader == [alg |-> "HS256", typ |-> "JWT"]

\* jwt.Signed(sig).Claims(c).CompactSerialize() with an HS256 signer on key
CompactSerialize(key, claims) ==
    LET payload == Marshal(claims)
    IN  <<JWTHeader, payload, HS256(key, payload)>>

EmptyString == <<>>
Malformed == <<"garbage">>

\* jwt.ParseSigned: three dot-separated parts or an error
ParseSigned(s) ==
    IF Len(s) = 3
    THEN [err |-> "nil", payload |-> s[2], sig |-> s[3]]
    ELSE [err |-> "parse", payload |-> Marshal([iss |-> ""]), sig |-> HS256(0, Marshal([iss |-> ""]))]

\* The members of a payload whose JSON value has another type than the Go
\* field of that name (a string where an int64 is expected): the payload
\* names them under "mistyped" and holds no value for them.
Mistyped(payload) ==
    IF "mistyped" \in DOMAIN payload THEN payload.mistyped ELSE {}

\* t.Claims(key, dest): verify the signature under key, then decode.  A
\* member of the wrong type makes json.Unmarshal return an error after it
\* has decoded the other members.
TokenClaims(tok, key, fields) ==
    IF tok.sig # HS256(key, tok.payload)
    THEN [err |-> "signature", dest |-> Unmarshal(Marshal([iss |-> ""]), fields)]
    ELSE IF Mistyped(tok.payload) \cap fields # {}
    THEN [err |-> "json", dest |-> Unmarshal(tok.payload, fields)]
    ELSE [err |-> "nil", dest |-> Unmarshal(tok.payload, fields)]

RECURSIVE JWTClaimsLoop(_, _, _, _, _)
JWTClaimsLoop(secrets, i, tok, fields, err) ==
    IF i > Len(secrets)
    THEN [err |-> IF err # "nil" THEN err ELSE "No valid key found",
          dest |-> Unmarshal(Marshal([iss |-> ""]), fields)]
    ELSE LET r == TokenClaims(tok, secrets[i], fields)
         IN  IF r.err = "nil" THEN r
             ELSE JWTClaimsLoop(secrets, i + 1, tok, fields, r.err)

\* A plausible bug: only the active signing key is tried.
JWTClaimsFirstKeyOnly(secrets, tok, fields) ==
    IF Len(secrets) = 0
    THEN [err |-> "No valid key found", dest |-> Unmarshal(Marshal([iss |-> ""]), fields)]
    ELSE TokenClaims(tok, secrets[1], fields)

\* A plausible bug: the payload is decoded without checking the signature.
JWTClaimsUnverified(secrets, tok, fields) ==
    [err |-> "nil", dest |-> Unmarshal(tok.payload, fields)]

\* Authenticator.JWTClaims: try every shared secret in order
JWTClaims(secrets, tok, fields) ==
    JWTClaimsLoop(secrets, 1, tok, fields, "nil")

(***************************************************************************)
(* Issuing tokens                                                          *)
(***************************************************************************)
\* len(key) of a shared secret: key 0 stands for the empty string
EmptyKey == 0
KeyLen(key) == IF key = EmptyKey THEN 0 ELSE 32

NoToken == EmptyString

\* A plausible bug: the subject tag of the state token is used.
genUserCookieValueStateSubject(secrets, username, expires, now) ==
    IF Len(secrets) = 0 \/ KeyLen(secrets[1]) < 1
    THEN [err |-> "no shared secrets", val |-> NoToken]
    ELSE [err |-> "nil",
          val |-> CompactSerialize(secrets[1],
                     [iss |-> appName,
                      sub |-> "state:" \o redirCookieName,
                      username |-> username,
                      aud |-> <<appName>>,
                      nbf |-> now,
                      iat |-> now,
                      exp |-> expires])]

\* genUserCookieValue(username, expires) at clock reading now
genUserCookieValue(secrets, username, expires, now) ==
    IF Len(secrets) = 0
    THEN [err |-> "panic", val |-> NoToken]      \* sharedSecrets[0]: index out of range
    ELSE IF KeyLen(secrets[1]) < 1
    THEN [err |-> "no shared secrets", val |-> NoToken]
    ELSE [err |-> "nil",
          val |-> CompactSerialize(secrets[1],
                     [iss |-> appName,
                      sub |-> "state:" \o AuthCookieName,
                      username |-> username,
                      aud |-> <<appName>>,
                      nbf |-> now,
                      iat |-> now,
                      exp |-> expires])]

\* setAndStoreAuthCookie: the clock is read at line 92 (t0) and, inside
\* genUserCookieValue, at line 80 (t1 >= t0).  The result is the error and
\* the Set-Cookie header written to the response.
NoSetCookie == [set |-> FALSE, name |-> "", value |-> NoToken, expires |-> 0]

setAndStoreAuthCookie(secrets, username, t0, t1) ==
    LET expires == t0 + cookieExpirationHours * SecondsPerHour
        gen == genUserCookieValue(secrets, username, expires, t1)
    IN  IF gen.err # "nil"
        THEN [err |-> gen.err, cookie |-> NoSetCookie]
        ELSE [err |-> "nil",
              cookie |-> [set |-> TRUE, name |-> AuthCookieName,
                          value |-> gen.val, expires |-> expires]]

\* A plausible bug: the path of the callback is recorded instead of the
\* URL of the request.
generateValidStateStringCallbackPath(secrets, url, now) ==
    IF Len(secrets) = 0
    THEN [err |-> "panic", val |-> NoToken]
    ELSE IF KeyLen(secrets[1]) < 1
    THEN [err |-> "no shared secrets", val |-> NoToken]
    ELSE [err |-> "nil",
          val |-> CompactSerialize(secrets[1],
                     [iss |-> appName,
                      sub |-> "state:" \o redirCookieName,
                      aud |-> <<appName>>,
                      return_url |-> "/oauth2/redirect",
                      nbf |-> now,
                      iat |-> now,
                      exp |-> now + maxAgeSecondsRedirCookie])]

\* generateValidStateString for a request to url
generateValidStateString(secrets, url, now) ==
    IF Len(secrets) = 0
    THEN [err |-> "panic", val |-> NoToken]
    ELSE IF KeyLen(secrets[1]) < 1
    THEN [err |-> "no shared secrets", val |-> NoToken]
    ELSE [err |-> "nil",
          val |-> CompactSerialize(secrets[1],
                     [iss |-> appName,
                      sub |-> "state:" \o redirCookieName,
                      aud |-> <<appName>>,
                      return_url |-> url,
                      nbf |-> now,
                      iat |-> now,
                      exp |-> now + maxAgeSecondsRedirCookie])]

(***************************************************************************)
(* What a handler wrote to the ResponseWriter                              *)
(***************************************************************************)
\* redirect: "none", "provider" (the authorization URL, carrying state) or
\* "returnURL" (the path url)
Response(status, redirect, state, url, cookie) ==
    [status |-> status, redirect |-> redirect, state |-> state, url |-> url,
     cookie |-> cookie]

NoResponse == Response(NothingWritten, "none", NoToken, "", NoSetCookie)

HttpError(status) == Response(status, "none", NoToken, "", NoSetCookie)

\* oauth2DoRedirectoToProviderHandler, with generateAuthCodeURL: the state
\* parameter of the authorization URL is the state string
oauth2DoRedirectoToProviderHandler(secrets, url, now) ==
    LET st == generateValidStateString(secrets, url, now)
    IN  IF st.err = "panic"
        THEN NoResponse       \* the goroutine panics before any write
        ELSE IF st.err # "nil"
        THEN HttpError(StatusInternalServerError)
        ELSE Response(StatusFound, "provider", st.val, "", NoSetCookie)

(***************************************************************************)
(* Validating tokens.  One clock reading serves both comparisons of a      *)
(* validity check.                                                         *)
(***************************************************************************)
\* A plausible bug: the subject tag is not compared.
getVerifyReturnStateJWTNoSubject(secrets, serializedState, now) ==
    LET tok == ParseSigned(serializedState)
        c == JWTClaims(secrets, tok, StateJWTFields)
    IN  IF Len(serializedState) < 1 \/ tok.err # "nil" \/ c.err # "nil"
        THEN [err |-> "rejected", jwt |-> c.dest]
        ELSE IF c.dest.iss # appName \/ c.dest.nbf > now \/ c.dest.exp < now
        THEN [err |-> "invalid JWT values", jwt |-> c.dest]
        ELSE [err |-> "nil", jwt |-> c.dest]

\* getVerifyReturnStateJWT on the request's state query parameter
getVerifyReturnStateJWT(secrets, serializedState, now) ==
    LET zero == Unmarshal(Marshal([iss |-> ""]), StateJWTFields)
    IN  IF Len(serializedState) < 1
        THEN [err |-> "null inbound state", jwt |-> zero]
        ELSE LET tok == ParseSigned(serializedState)
             IN  IF tok.err # "nil"
                 THEN [err |-> tok.err, jwt |-> zero]
                 ELSE LET c == JWTClaims(secrets, tok, StateJWTFields)
                      IN  IF c.err # "nil"
                          THEN [err |-> c.err, jwt |-> c.dest]
                          ELSE IF \/ c.dest.iss # appName
                                  \/ c.dest.sub # "state:" \o redirCookieName
                                  \/ c.dest.nbf > now
                                  \/ c.dest.exp < now
                          THEN [err |-> "invalid JWT values", jwt |-> c.dest]
                          ELSE [err |-> "nil", jwt |-> c.dest]

\* validateUserCookieValue: "" if no or bad username, an error for fatal
\* errors only
validateUserCookieValue(secrets, remoteCookieValue, now) ==
    IF Len(remoteCookieValue) < 1
    THEN [username |-> "", err |-> "nil"]
    ELSE LET tok == ParseSigned(remoteCookieValue)
         IN  IF tok.err # "nil"
             THEN [username |-> "", err |-> "nil"]
             ELSE LET c == JWTClaims(secrets, tok, CookieJWTFields)
                  IN  IF c.err # "nil"
                      THEN [username |-> "", err |-> "nil"]
                      ELSE IF \/ c.dest.iss # appName
                              \/ c.dest.sub # "state:" \o AuthCookieName
                              \/ c.dest.nbf > now
                              \/ c.dest.exp < now
                      THEN [username |-> "", err |-> "nil"]
                      ELSE IF Len(c.dest.username) < 1
                      THEN [username |-> "", err |-> "bad cookie Vauue state"]
                      ELSE [username |-> c.dest.username, err |-> "nil"]

(***************************************************************************)
(* The provider: what a PostForm to the token or userinfo endpoint gives   *)
(***************************************************************************)
\* A reply is the transport outcome, the status code and the body.  A body
\* is either not JSON (json = FALSE) or a JSON object, given by the value
\* of each field the program decodes ("" for a field that is absent).
TokenBody(json, tokenType, token) ==
    [json |-> json, token_type |-> tokenType, access_token |-> token]

UserinfoBody(json, username, login, preferred, email) ==
    [json |-> json, sub |-> "subject-1", name |-> "Some Name",
     username |-> username, login |-> login,
     preferred_username |-> preferred, email |-> email]

Reply(transport, status, body) ==
    [transport |-> transport, status |-> status, body |-> body]

GoodTokenBody == TokenBody(TRUE, "Bearer", "tok123")

TokenReplies ==
    { Reply("error", 0, TokenBody(FALSE, "", "")),
      Reply("ok", 200, GoodTokenBody),
      Reply("ok", 299, GoodTokenBody),
      Reply("ok", 300, GoodTokenBody),
      Reply("ok", 200, TokenBody(FALSE, "", "")),
      Reply("ok", 200, TokenBody(TRUE, "bearer", "tok123")),
      Reply("ok", 200, TokenBody(TRUE, "Bearer", "")) }

UserinfoReplies ==
    { Reply("error", 0, UserinfoBody(FALSE, "", "", "", "")),
      Reply("ok", 500, UserinfoBody(TRUE, "alice", "", "", "")),
      Reply("ok", 200, UserinfoBody(FALSE, "", "", "", "")),
      Reply("ok", 200, UserinfoBody(TRUE, "alice", "", "", "")),
      Reply("ok", 200, UserinfoBody(TRUE, "", "bob", "carol", "d@x.com")),
      Reply("ok", 200, UserinfoBody(TRUE, "", "", "", "")) }

\* The endpoint was not called
NotCalled == Reply("notcalled", 0, TokenBody(FALSE, "", ""))

\* A plausible bug: the status code is not looked at.
getBytesFromSuccessfullPostAnyStatus(reply) ==
    IF reply.transport # "ok"
    THEN [err |-> "post", body |-> reply.body]
    ELSE [err |-> "nil", body |-> reply.body]

\* A plausible bug: only the statuses from 400 on are failures.
getBytesFromSuccessfullPostFrom400(reply) ==
    IF reply.transport # "ok"
    THEN [err |-> "post", body |-> reply.body]
    ELSE IF reply.status >= 400
    THEN [err |-> "invalid status code", body |-> reply.body]
    ELSE [err |-> "nil", body |-> reply.body]

\* getBytesFromSuccessfullPost: the body, or an error
getBytesFromSuccessfullPost(reply) ==
    IF reply.transport # "ok"
    THEN [err |-> "post", body |-> reply.body]
    ELSE IF reply.status >= 300
    THEN [err |-> "invalid status code", body |-> reply.body]
    ELSE [err |-> "nil", body |-> reply.body]

\* A plausible bug: preferred_username is tried before login.
getUsernameFromUserinfoPreferredFirst(userInfo) ==
    LET u1 == userInfo.username
        u2 == IF Len(u1) < 1 THEN userInfo.preferred_username ELSE u1
        u3 == IF Len(u2) < 1 THEN userInfo.login ELSE u2
        u4 == IF Len(u3) < 1 THEN userInfo.email ELSE u3
    IN  u4

\* getUsernameFromUserinfo
getUsernameFromUserinfo(userInfo) ==
    LET u1 == userInfo.username
        u2 == IF Len(u1) < 1 THEN userInfo.login ELSE u1
        u3 == IF Len(u2) < 1 THEN userInfo.preferred_username ELSE u2
        u4 == IF Len(u3) < 1 THEN userInfo.email ELSE u3
    IN  u4

(***************************************************************************)
(* The callback handler                                                    *)
(***************************************************************************)
\* What one run of oauth2RedirectPathHandler did: the response, the calls
\* it made to the provider, and the username it derived
CallbackOut(resp, tokenCalls, userinfoCalls, stateErr, username) ==
    [resp |-> resp, tokenCalls |-> tokenCalls, userinfoCalls |-> userinfoCalls,
     stateErr |-> stateErr, username |-> username]

\* oauth2RedirectPathHandler on request req = [method, code, state], with
\* the replies the provider gives if called, and the clock readings t0, t1
\* of setAndStoreAuthCookie
oauth2RedirectPathHandler(secrets, req, tokenReply, userinfoReply, t0, t1) ==
    IF req.method # "GET"
    THEN CallbackOut(HttpError(StatusMethodNotAllowed), 0, 0, "unchecked", "")
    ELSE IF Len(req.code) < 1
    THEN CallbackOut(HttpError(StatusUnauthorized), 0, 0, "unchecked", "")
    ELSE
    LET st == getVerifyReturnStateJWT(secrets, req.state, t0)
    IN  IF st.err # "nil"
        THEN CallbackOut(HttpError(StatusUnauthorized), 0, 0, st.err, "")
        ELSE
    LET tokenResp == getBytesFromSuccessfullPost(tokenReply)
    IN  IF tokenResp.err # "nil"
        THEN CallbackOut(HttpError(StatusInternalServerError), 1, 0, "nil", "")
        ELSE IF ~tokenResp.body.json
        THEN CallbackOut(HttpError(StatusInternalServerError), 1, 0, "nil", "")
        ELSE IF \/ tokenResp.body.token_type # "Bearer"
                \/ Len(tokenResp.body.access_token) < 1
        THEN CallbackOut(HttpError(StatusInternalServerError), 1, 0, "nil", "")
        ELSE
    LET userInfoResp == getBytesFromSuccessfullPost(userinfoReply)
    IN  IF userInfoResp.err # "nil"
        THEN CallbackOut(HttpError(StatusInternalServerError), 1, 1, "nil", "")
        ELSE IF ~userInfoResp.body.json
        THEN CallbackOut(HttpError(StatusInternalServerError), 1, 1, "nil", "")
        ELSE
    LET username == getUsernameFromUserinfo(userInfoResp.body)
        sc == setAndStoreAuthCookie(secrets, username, t0, t1)
    IN  IF sc.err = "panic"
        THEN CallbackOut(NoResponse, 1, 1, "nil", username)
        ELSE IF sc.err # "nil"
        THEN CallbackOut(HttpError(StatusInternalServerError), 1, 1, "nil", username)
        ELSE CallbackOut(Response(StatusFound, "returnURL", NoToken,
                                  st.jwt.return_url, sc.cookie),
                         1, 1, "nil", username)

(***************************************************************************)
(* The middleware                                                          *)
(***************************************************************************)
\* r.TLS: absent, or present with the leaf common name of each verified chain
TLS(present, chains) == [present |-> present, chains |-> chains]
NoTLS == TLS(FALSE, <<>>)

\* The request's cookie named AuthCookieName, if any
Cookie(present, value) == [present |-> present, value |-> value]
NoCookie == Cookie(FALSE, NoToken)

\* What one run of getRemoteUserName returned and did
ResolveOut(username, err, resp, headersCalled, cookieRead) ==
    [username |-> username, err |-> err, resp |-> resp,
     headersCalled |-> headersCalled, cookieRead |-> cookieRead]

\* A plausible bug: the cookie is consulted before the client certificate.
getRemoteUserNameCookieFirst(secrets, req, setHeaders, now) ==
    LET v == validateUserCookieValue(secrets, req.cookie.value, now)
    IN  IF req.cookie.present /\ v.err = "nil" /\ v.username # ""
        THEN ResolveOut(v.username, "nil", NoResponse, FALSE, TRUE)
        ELSE IF req.tls.present /\ Len(req.tls.chains) > 0
        THEN ResolveOut(req.tls.chains[1], "nil", NoResponse, FALSE, TRUE)
        ELSE ResolveOut("", "Invalid Cookie Value",
                        oauth2DoRedirectoToProviderHandler(secrets, req.url, now),
                        FALSE, TRUE)

\* A plausible bug: a bad cookie gets an error page instead of the redirect.
getRemoteUserNameErrorPage(secrets, req, setHeaders, now) ==
    IF ~req.cookie.present
    THEN ResolveOut("", "http: named cookie not present",
                    oauth2DoRedirectoToProviderHandler(secrets, req.url, now),
                    setHeaders # "nil", TRUE)
    ELSE LET v == validateUserCookieValue(secrets, req.cookie.value, now)
         IN  IF v.username = ""
             THEN ResolveOut("", "Invalid Cookie Value",
                             HttpError(StatusUnauthorized), setHeaders # "nil", TRUE)
             ELSE ResolveOut(v.username, "nil", NoResponse, setHeaders # "nil", TRUE)

\* What getRemoteUserName returns after its call of
\* oauth2DoRedirectoToProviderHandler: err, unless the call panicked, and
\* then the function does not return at all (net/http recovers the panic
\* and drops the connection; the caller sees no username and no response).
AfterRedirect(resp, err, headersCalled) ==
    ResolveOut("", IF resp = NoResponse THEN "panic" ELSE err, resp, headersCalled, TRUE)

\* getRemoteUserName on request req = [tls, cookie, url].  setHeaders is
\* "nil" when setHeadersFunc is nil, else what setHeadersFunc returns.
getRemoteUserName(secrets, req, setHeaders, now) ==
    IF req.tls.present /\ Len(req.tls.chains) > 0
    THEN ResolveOut(req.tls.chains[1], "nil", NoResponse, FALSE, FALSE)
    ELSE IF setHeaders = "error"
    THEN ResolveOut("", "setHeaders", NoResponse, TRUE, FALSE)
    ELSE IF ~req.cookie.present
    THEN AfterRedirect(oauth2DoRedirectoToProviderHandler(secrets, req.url, now),
                       "http: named cookie not present", setHeaders # "nil")
    ELSE LET v == validateUserCookieValue(secrets, req.cookie.value, now)
         IN  IF v.err # "nil"
             THEN ResolveOut("", v.err, HttpError(StatusInternalServerError),
                             setHeaders # "nil", TRUE)
             ELSE IF v.username = ""
             THEN AfterRedirect(oauth2DoRedirectoToProviderHandler(secrets, req.url, now),
                                "Invalid Cookie Value", setHeaders # "nil")
             ELSE ResolveOut(v.username, "nil", NoResponse, setHeaders # "nil", TRUE)

(***************************************************************************)
(* State                                                                   *)
(***************************************************************************)
VARIABLES
    clock,          \* time.Now().Unix()
    ticks,          \* how many times the clock has advanced
    sharedSecrets,  \* Authenticator.sharedSecrets
    browserCookie,  \* the auth cookie the browser holds
    pendingState,   \* the Login State Token on its way through the provider
    last            \* the request being answered, with what the handler did

vars == <<clock, ticks, sharedSecrets, browserCookie, pendingState, last>>

\* The browser's auth cookie, with the username it was issued for and the
\* secret list it was issued under
Session(held, value, username, secrets) ==
    [held |-> held, value |-> value, username |-> username, secrets |-> secrets]
NoSession == Session(FALSE, NoToken, "", <<>>)

\* The state token of the login in progress, with the URL it was issued
\* for and whether a callback has already completed a login with it
Pending(held, value, url, used) ==
    [held |-> held, value |-> value, url |-> url, used |-> used]
NoPending == Pending(FALSE, NoToken, "", FALSE)

Idle == [op |-> "idle"]

Init ==
    /\ clock = StartTime
    /\ ticks = 0
    /\ sharedSecrets = <<1>>
    /\ browserCookie = NoSession
    /\ pendingState = NoPending
    /\ last = Idle

(***************************************************************************)
(* The environment: time passes, the operator rotates the secrets          *)
(***************************************************************************)
Tick ==
    /\ last = Idle
    /\ ticks < MaxTicks
    /\ \E d \in TickSteps : clock' = clock + d
    /\ ticks' = ticks + 1
    /\ UNCHANGED <<sharedSecrets, browserCookie, pendingState, last>>

\* A rotation prepends a new key and retains the older ones, or all of
\* them but the oldest.
Rotate ==
    /\ last = Idle
    /\ sharedSecrets[1] < MaxRotations + 1
    /\ \E keep \in {Len(sharedSecrets) - 1, Len(sharedSecrets)} :
          sharedSecrets' = <<sharedSecrets[1] + 1>> \o SubSeq(sharedSecrets, 1, keep)
    /\ UNCHANGED <<clock, ticks, browserCookie, pendingState, last>>

(***************************************************************************)
(* Requests                                                                *)
(***************************************************************************)
\* A request to a protected page reaches getRemoteUserName
Resolve(req, setHeaders) ==
    /\ last = Idle
    /\ last' = [op |-> "resolve", req |-> req, setHeaders |-> setHeaders,
                out |-> getRemoteUserName(sharedSecrets, req, setHeaders, clock)]
    /\ UNCHANGED <<clock, ticks, sharedSecrets, browserCookie, pendingState>>

\* The record of a callback: the provider's replies are those of the calls
\* the handler made; the clock advanced by d while it ran
CallbackDone(req, tokenReply, userinfoReply, d, out) ==
    /\ last' = [op |-> "callback", req |-> req, tokenReply |-> tokenReply,
                userinfoReply |-> userinfoReply, out |-> out, at |-> clock,
                replay |-> pendingState.held /\ pendingState.used
                           /\ req.state = pendingState.value]
    /\ clock' = clock + d
    /\ ticks' = ticks + d
    /\ UNCHANGED <<sharedSecrets, browserCookie, pendingState>>

\* The provider redirects the browser to Oauth2redirectPath.  The token and
\* userinfo endpoints reply only if the handler calls them.
Callback(req) ==
    /\ last = Idle
    /\ LET h0 == oauth2RedirectPathHandler(sharedSecrets, req, NotCalled, NotCalled,
                                           clock, clock)
       IN  IF h0.tokenCalls = 0
           THEN CallbackDone(req, NotCalled, NotCalled, 0, h0)
           ELSE \E tr \in TokenReplies :
                LET h1 == oauth2RedirectPathHandler(sharedSecrets, req, tr, NotCalled,
                                                    clock, clock)
                IN  IF h1.userinfoCalls = 0
                    THEN CallbackDone(req, tr, NotCalled, 0, h1)
                    ELSE \E ur \in UserinfoReplies, d \in {0, 1} :
                         LET h2 == oauth2RedirectPathHandler(sharedSecrets, req, tr, ur,
                                                             clock, clock + d)
                         IN  /\ d = 1 => (h2.resp.cookie.set /\ ticks < MaxTicks)
                             /\ CallbackDone(req, tr, ur, d, h2)

(***************************************************************************)
(* The browser                                                             *)
(***************************************************************************)
\* What an honest browser can put in a request: its cookie or none, and,
\* pasted in the other place, the state token it holds
HeldCookies ==
    {NoCookie}
    \cup (IF browserCookie.held THEN {Cookie(TRUE, browserCookie.value)} ELSE {})
    \cup (IF pendingState.held THEN {Cookie(TRUE, pendingState.value)} ELSE {})

HeldStates ==
    (IF pendingState.held THEN {pendingState.value} ELSE {})
    \cup (IF browserCookie.held THEN {browserCookie.value} ELSE {})

BrowserResolve ==
    /\ last = Idle
    /\ \E url \in URLs, c \in HeldCookies :
        Resolve([tls |-> NoTLS, cookie |-> c, url |-> url], "nil")

BrowserCallback ==
    /\ last = Idle
    /\ \E st \in HeldStates :
        Callback([method |-> "GET", code |-> "authcode", state |-> st])

\* The browser takes the response: it follows a redirect to the provider
\* with the new state token, and stores the cookie of a Set-Cookie header.
Deliver ==
    /\ last # Idle
    /\ last' = Idle
    /\ pendingState' =
          IF last.op = "resolve" /\ last.out.resp.redirect = "provider"
          THEN Pending(TRUE, last.out.resp.state, last.req.url, FALSE)
          ELSE IF /\ last.op = "callback"
                  /\ last.out.resp.redirect = "returnURL"
                  /\ pendingState.held
                  /\ last.req.state = pendingState.value
          THEN [pendingState EXCEPT !.used = TRUE]
          ELSE pendingState
    /\ browserCookie' =
          IF last.op = "callback" /\ last.out.resp.cookie.set
          THEN Session(TRUE, last.out.resp.cookie.value, last.out.username, sharedSecrets)
          ELSE browserCookie
    /\ UNCHANGED <<clock, ticks, sharedSecrets>>

Next == Tick \/ Rotate \/ BrowserResolve \/ BrowserCallback \/ Deliver

Spec == Init /\ [][Next]_vars

(***************************************************************************)
(* Arbitrary clients: the handlers on every kind of input                  *)
(***************************************************************************)
\* The claims of a token of either kind; the zero fields are left out of
\* the payload
AnyClaims(iss, sub, username, url, window) ==
    [iss |-> iss, sub |-> sub, username |-> username, return_url |-> url,
     aud |-> <<iss>>, nbf |-> window[1], iat |-> window[1], exp |-> window[2]]

CookieSubject == "state:" \o AuthCookieName
StateSubject == "state:" \o redirCookieName

\* Validity windows <<nbf, exp>> around the clock reading now
Inside(now) == <<now - 1, now + 1>>
AtExpiry(now) == <<now - 1, now>>
AtNotBefore(now) == <<now, now + 1>>
Expired(now) == <<now - 2, now - 1>>
NotYetValid(now) == <<now + 1, now + 2>>
Windows(now) == {Inside(now), AtExpiry(now), AtNotBefore(now), Expired(now), NotYetValid(now)}

PaletteClaims(now) ==
    {AnyClaims(appName, CookieSubject, u, "", w) : u \in {"alice", ""}, w \in Windows(now)}
    \cup {AnyClaims(appName, StateSubject, "", "/pageA", w) : w \in Windows(now)}
    \cup {AnyClaims(OtherIssuer, CookieSubject, "alice", "", Inside(now)),
          AnyClaims(OtherIssuer, StateSubject, "", "/pageA", Inside(now)),
          AnyClaims(appName, StateSubject, "alice", "/pageA", Inside(now)),
          AnyClaims(appName, CookieSubject, "alice", "/pageA", Inside(now))}

\* Tokens signed with any key, current or not, over any of the claims
SignedTokens(now) ==
    {CompactSerialize(k, c) : k \in Keys, c \in PaletteClaims(now)}

\* A signed token whose payload was replaced after signing
WithPayload(token, claims) == <<token[1], Marshal(claims), token[3]>>

\* A signed token whose signature was replaced by a tag for another payload
WithOtherTag(token) ==
    <<token[1], token[2], [token[3] EXCEPT !.over = Marshal([iss |-> "flipped"])]>>

TamperedTokens(now) ==
    UNION {
      { WithPayload(CompactSerialize(k, AnyClaims(appName, CookieSubject, "alice", "", Expired(now))),
                    AnyClaims(appName, CookieSubject, "alice", "", <<now - 2, now + 1>>)),
        WithPayload(CompactSerialize(k, AnyClaims(appName, CookieSubject, "alice", "", Inside(now))),
                    AnyClaims(appName, CookieSubject, "mallory", "", Inside(now))),
        WithPayload(CompactSerialize(k, AnyClaims(appName, StateSubject, "", "/pageA", Inside(now))),
                    AnyClaims(appName, StateSubject, "", "/evil", Inside(now))),
        WithOtherTag(CompactSerialize(k, AnyClaims(appName, CookieSubject, "alice", "", Inside(now)))),
        WithOtherTag(CompactSerialize(k, AnyClaims(appName, StateSubject, "", "/pageA", Inside(now)))) }
      : k \in Keys }

\* The payload of claims with the member f replaced by a JSON string
MistypedPayload(claims, f) ==
    LET payload == Marshal(claims)
    IN  [g \in (DOMAIN payload \ {f}) \cup {"mistyped"} |->
            IF g = "mistyped" THEN {f} ELSE payload[g]]

\* Tokens signed with any key over claims that do not decode: issuer,
\* subject and validity window are right, iat is a string
UndecodableTokens(now) ==
    UNION {
      { <<JWTHeader, p, HS256(k, p)>> :
          p \in { MistypedPayload(AnyClaims(appName, CookieSubject, "alice", "", Inside(now)), "iat"),
                  MistypedPayload(AnyClaims(appName, StateSubject, "", "/pageA", Inside(now)), "iat") } }
      : k \in Keys }

AnyToken(now) ==
    {EmptyString, Malformed} \cup SignedTokens(now) \cup TamperedTokens(now)
    \cup UndecodableTokens(now)

AnyTLS == {NoTLS, TLS(TRUE, <<>>), TLS(TRUE, <<"carol">>), TLS(TRUE, <<"">>)}

AnyResolve ==
    /\ last = Idle
    /\ \E tls \in AnyTLS, url \in URLs, setHeaders \in {"nil", "ok", "error"},
       c \in {NoCookie} \cup {Cookie(TRUE, v) : v \in AnyToken(clock)} :
        Resolve([tls |-> tls, cookie |-> c, url |-> url], setHeaders)

AnyCallback ==
    /\ last = Idle
    /\ \E method \in {"GET", "POST"}, code \in {"", "authcode"}, st \in AnyToken(clock) :
        Callback([method |-> method, code |-> code, state |-> st])

\* The client drops the response
Discard ==
    /\ last # Idle
    /\ last' = Idle
    /\ UNCHANGED <<clock, ticks, sharedSecrets, browserCookie, pendingState>>

NextInputs == Tick \/ Rotate \/ AnyResolve \/ AnyCallback \/ Discard

SpecInputs == Init /\ [][NextInputs]_vars

(***************************************************************************)
(* Misconfiguration: an Authenticator built with any secret list, also an  *)
(* empty one and one whose first entry is the empty string                 *)
(***************************************************************************)
ConfiguredSecrets == {<<>>, <<EmptyKey>>, <<EmptyKey, 1>>, <<1>>, <<2, 1>>}

InitConfig ==
    /\ clock = StartTime
    /\ ticks = 0
    /\ sharedSecrets \in ConfiguredSecrets
    /\ browserCookie = NoSession
    /\ pendingState = NoPending
    /\ last = Idle

NextConfig == AnyResolve \/ AnyCallback \/ Discard

SpecConfig == InitConfig /\ [][NextConfig]_vars

(***************************************************************************)
(* Username derivation on every decoded userinfo document                  *)
(***************************************************************************)
\* The decoded openidConnectUserInfo structs: every field empty or not; sub
\* and name also with values that other fields hold
AnyUserinfo ==
    { [UserinfoBody(TRUE, u, l, p, e) EXCEPT !.sub = s, !.name = n] :
        u \in {"", "alice"}, l \in {"", "bob"}, p \in {"", "carol"},
        e \in {"", "d@x.com"}, s \in {"", "subject-1", "alice"},
        n \in {"", "Some Name", "bob"} }

DeriveUsername ==
    /\ last = Idle
    /\ \E userInfo \in AnyUserinfo :
          last' = [op |-> "derive", userInfo |-> userInfo,
                   out |-> getUsernameFromUserinfo(userInfo)]
    /\ UNCHANGED <<clock, ticks, sharedSecrets, browserCookie, pendingState>>

NextUserinfo == DeriveUsername \/ Discard

SpecUserinfo == Init /\ [][NextUserinfo]_vars

(***************************************************************************)
(* Properties                                                              *)
(***************************************************************************)
\* The secrets currently configured
CurrentKeys == {sharedSecrets[i] : i \in 1 .. Len(sharedSecrets)}

\* The compact string s parses and its tag is the MAC of its payload under
\* one of the current secrets
WellSigned(s) ==
    /\ Len(s) = 3
    /\ \E k \in CurrentKeys : s[3] = HS256(k, s[2])

\* The value of claim f in the payload of a compact string that parses
ClaimOf(s, f) == IF f \in DOMAIN s[2] THEN s[2][f] ELSE ZeroOf(f)

\* The last request was a protected-page request that carried cookie value v
\* and went down the cookie path
PresentedCookie(v) ==
    /\ last.op = "resolve"
    /\ last.out.cookieRead
    /\ last.req.cookie = Cookie(TRUE, v)

\* The last request went down the cookie path with some cookie
PresentedCookieAny ==
    /\ last.op = "resolve"
    /\ last.out.cookieRead
    /\ last.req.cookie.present

\* C1: a session cookie issued for a non-empty username validates to
\* exactly that username, with a nil error, at every time strictly inside
\* its validity window, whatever requests were served in between, as long
\* as the secret list is the one it was issued under; and a request that
\* presents it is then answered with that identity and no response written.
C1_RoundTrip ==
    (/\ browserCookie.held
     /\ browserCookie.username # ""
     /\ browserCookie.secrets = sharedSecrets
     /\ ClaimOf(browserCookie.value, "nbf") < clock
     /\ clock < ClaimOf(browserCookie.value, "exp"))
    => /\ validateUserCookieValue(sharedSecrets, browserCookie.value, clock)
             = [username |-> browserCookie.username, err |-> "nil"]
       /\ PresentedCookie(browserCookie.value)
             => /\ last.out.username = browserCookie.username
                /\ last.out.err = "nil"
                /\ last.out.resp = NoResponse

\* The browser's cookie for alice was presented strictly inside its window,
\* after a later login attempt had started, and alice was returned.
C1_Witness ==
    /\ browserCookie.held
    /\ browserCookie.username = "alice"
    /\ browserCookie.secrets = sharedSecrets
    /\ ClaimOf(browserCookie.value, "nbf") < clock
    /\ clock < ClaimOf(browserCookie.value, "exp")
    /\ pendingState.held
    /\ ClaimOf(pendingState.value, "nbf") > ClaimOf(browserCookie.value, "nbf")
    /\ PresentedCookie(browserCookie.value)
    /\ last.out.username = "alice"

\* C2: a session token whose expiration claim equals the current time is
\* rejected: the username returned for it is empty.
C2_ExpiryExclusive ==
    (/\ browserCookie.held
     /\ PresentedCookie(browserCookie.value)
     /\ ClaimOf(browserCookie.value, "exp") = clock)
    => last.out.username = ""

\* C3: whatever rotations happened, a token of the browser that is not
\* expired and whose signing key is still in the secret list, at any
\* index, is verified by JWTClaims and accepted by its validator; and every
\* token just issued is signed with the first secret of the list.
C3_Rotation ==
    /\ (/\ browserCookie.held
        /\ browserCookie.value[3].key \in CurrentKeys
        /\ clock < ClaimOf(browserCookie.value, "exp"))
       => /\ JWTClaims(sharedSecrets, ParseSigned(browserCookie.value),
                       CookieJWTFields).err = "nil"
          /\ browserCookie.username # "" =>
                validateUserCookieValue(sharedSecrets, browserCookie.value, clock)
                   = [username |-> browserCookie.username, err |-> "nil"]
    /\ (/\ pendingState.held
        /\ pendingState.value[3].key \in CurrentKeys
        /\ clock < ClaimOf(pendingState.value, "exp"))
       => /\ JWTClaims(sharedSecrets, ParseSigned(pendingState.value),
                       StateJWTFields).err = "nil"
          /\ getVerifyReturnStateJWT(sharedSecrets, pendingState.value, clock).err = "nil"
    /\ (last.op = "resolve" /\ last.out.resp.redirect = "provider")
       => last.out.resp.state[3] = HS256(sharedSecrets[1], last.out.resp.state[2])
    /\ (last.op = "callback" /\ last.out.resp.cookie.set)
       => last.out.resp.cookie.value[3]
             = HS256(sharedSecrets[1], last.out.resp.cookie.value[2])

\* A cookie signed with the secret that a rotation moved to the second
\* place was presented and its user returned.
C3_Witness ==
    /\ Len(sharedSecrets) = 2
    /\ browserCookie.held
    /\ browserCookie.value[3].key = sharedSecrets[2]
    /\ PresentedCookie(browserCookie.value)
    /\ last.out.username = "alice"

\* C4: a token is accepted (a non-empty username from the cookie, a state
\* without error) only if its signature is valid for its payload under one
\* of the current secrets; a tampered token or one signed with another
\* key never is.
C4_Unforgeable ==
    /\ (last.op = "resolve" /\ last.out.cookieRead /\ last.out.username # "")
       => (last.req.cookie.present /\ WellSigned(last.req.cookie.value))
    /\ (last.op = "callback" /\ last.out.stateErr = "nil")
       => WellSigned(last.req.state)

\* A cookie whose payload was changed after signing with a current secret
\* was presented and refused.
C4_Witness ==
    /\ last.op = "resolve"
    /\ last.out.cookieRead
    /\ last.req.cookie.present
    /\ Len(last.req.cookie.value) = 3
    /\ last.req.cookie.value[3].key \in CurrentKeys
    /\ last.req.cookie.value[3].over # last.req.cookie.value[2]
    /\ ClaimOf(last.req.cookie.value, "username") = "mallory"
    /\ last.out.username = ""
    /\ last.out.resp.redirect = "provider"

\* C5: a callback that carries a state value with which a callback has
\* already completed a login is rejected: it does not complete a login
\* again.
C5_SingleUse ==
    (last.op = "callback" /\ last.replay)
    => ~(/\ last.out.resp.status = StatusFound
         /\ last.out.resp.redirect = "returnURL"
         /\ last.out.resp.cookie.set)

\* C6: when the userinfo reply has username, login, preferred_username and
\* email all empty, the callback sets no session cookie and does not
\* redirect to the return URL.
C6_EmptyUsernameFails ==
    (/\ last.op = "callback"
     /\ last.out.userinfoCalls = 1
     /\ last.userinfoReply.transport = "ok"
     /\ last.userinfoReply.status < 300
     /\ last.userinfoReply.body.json
     /\ last.userinfoReply.body.username = ""
     /\ last.userinfoReply.body.login = ""
     /\ last.userinfoReply.body.preferred_username = ""
     /\ last.userinfoReply.body.email = "")
    => /\ ~last.out.resp.cookie.set
       /\ last.out.resp.redirect # "returnURL"

\* C7: getRemoteUserName either returns a nil error and wrote nothing, or
\* returns an error and wrote a redirect or an error response.
C7_ResponseWritten ==
    last.op = "resolve"
    => \/ last.out.err = "nil" /\ last.out.resp = NoResponse
       \/ last.out.err # "nil" /\ last.out.resp.status # NothingWritten

\* The request carries no verified client certificate
NoVerifiedChain(req) == ~(req.tls.present /\ Len(req.tls.chains) > 0)

\* The cookie value v is one that is to be refused without an error: it is
\* empty or malformed, or not signed with a current secret, or its issuer
\* or subject is wrong, or it is not yet valid or expired.
Refusable(v) ==
    \/ Len(v) # 3
    \/ ~WellSigned(v)
    \/ ClaimOf(v, "iss") # appName
    \/ ClaimOf(v, "sub") # CookieSubject
    \/ ClaimOf(v, "nbf") > clock
    \/ ClaimOf(v, "exp") < clock

\* The response is a 302 to the provider that carries a state token
\* issued at this instant for the requested URL, and sets no cookie
RedirectedToLogin ==
    /\ last.out.resp.status = StatusFound
    /\ last.out.resp.redirect = "provider"
    /\ ~last.out.resp.cookie.set
    /\ LET st == getVerifyReturnStateJWT(sharedSecrets, last.out.resp.state, clock)
       IN  /\ st.err = "nil"
           /\ st.jwt.return_url = last.req.url
           /\ st.jwt.nbf = clock
           /\ st.jwt.exp = clock + maxAgeSecondsRedirCookie

\* The last request had no verified client certificate, and no cookie or a
\* cookie that is to be refused
Unauthenticated ==
    /\ last.op = "resolve"
    /\ NoVerifiedChain(last.req)
    /\ last.req.cookie.present => Refusable(last.req.cookie.value)

C9_CertificateFirst ==
    (last.op = "resolve" /\ ~NoVerifiedChain(last.req))
    => /\ last.out.username = last.req.tls.chains[1]
       /\ last.out.err = "nil"
       /\ ~last.out.cookieRead
       /\ ~last.out.headersCalled
       /\ last.out.resp = NoResponse

\* A request with carol's verified certificate and a cookie that is valid
\* for alice was answered with carol.
C9_Witness ==
    /\ last.op = "resolve"
    /\ last.req.tls = TLS(TRUE, <<"carol">>)
    /\ last.req.cookie.present
    /\ validateUserCookieValue(sharedSecrets, last.req.cookie.value, clock)
          = [username |-> "alice", err |-> "nil"]
    /\ last.out.username = "carol"

\* C10: a token signed with a current secret whose subject is not the
\* redirect-state tag is refused as the callback's state, and one whose
\* subject is not the session-cookie tag yields an empty username as the
\* cookie.
C10_SubjectScoping ==
    /\ (/\ last.op = "callback"
        /\ WellSigned(last.req.state)
        /\ ClaimOf(last.req.state, "sub") # StateSubject)
       => /\ last.out.stateErr # "nil"
          /\ last.out.tokenCalls = 0
          /\ ~last.out.resp.cookie.set
          /\ last.out.resp.redirect = "none"
    /\ (/\ PresentedCookieAny
        /\ WellSigned(last.req.cookie.value)
        /\ ClaimOf(last.req.cookie.value, "sub") # CookieSubject)
       => last.out.username = ""

\* A session token that is valid as a cookie was given as the state of a
\* GET callback with a code, and refused.
C10_Witness ==
    /\ last.op = "callback"
    /\ last.req.method = "GET"
    /\ last.req.code # ""
    /\ validateUserCookieValue(sharedSecrets, last.req.state, clock)
          = [username |-> "alice", err |-> "nil"]
    /\ last.out.stateErr = "invalid JWT values"
    /\ last.out.resp.status = StatusUnauthorized

\* The token reply is one the callback goes on with: delivered, status
\* below 300, JSON, token type Bearer and a non-empty access token
GoodTokenReply(reply) ==
    /\ reply.transport = "ok"
    /\ reply.status < 300
    /\ reply.body.json
    /\ reply.body.token_type = "Bearer"
    /\ reply.body.access_token # ""

\* The userinfo reply was delivered with a status below 300 and a JSON body
GoodUserinfoReply(reply) ==
    /\ reply.transport = "ok"
    /\ reply.status < 300
    /\ reply.body.json

\* C11: the login end to end.  (1) A request to a URL with no certificate
\* and no cookie is answered with a 302 to the provider carrying a state
\* token just issued for that URL.  (2) A GET callback with a code and that
\* state token, while the token is unexpired and its key configured, with
\* a Bearer token reply and a userinfo reply naming user U, sets the
\* session cookie for U and redirects with 302 to exactly the URL of (1).
\* (3) A later request with the cookie the browser got, inside its
\* validity window, returns the user it was issued for, and writes nothing.
C11_EndToEnd ==
    /\ (/\ last.op = "resolve"
        /\ last.req.tls = NoTLS
        /\ last.req.cookie = NoCookie)
       => /\ last.out.username = ""
          /\ RedirectedToLogin
    /\ (/\ last.op = "callback"
        /\ last.req.method = "GET"
        /\ last.req.code # ""
        /\ pendingState.held
        /\ last.req.state = pendingState.value
        /\ pendingState.value[3].key \in CurrentKeys
        /\ last.at < ClaimOf(pendingState.value, "exp")
        /\ GoodTokenReply(last.tokenReply)
        /\ GoodUserinfoReply(last.userinfoReply)
        /\ last.userinfoReply.body.username # "")
       => /\ last.out.resp.status = StatusFound
          /\ last.out.resp.redirect = "returnURL"
          /\ last.out.resp.url = pendingState.url
          /\ last.out.resp.cookie.set
          /\ last.out.resp.cookie.name = AuthCookieName
          /\ last.out.username = last.userinfoReply.body.username
          /\ validateUserCookieValue(sharedSecrets, last.out.resp.cookie.value, clock)
                = [username |-> last.userinfoReply.body.username, err |-> "nil"]
    /\ (/\ browserCookie.held
        /\ browserCookie.username # ""
        /\ PresentedCookie(browserCookie.value)
        /\ browserCookie.value[3].key \in CurrentKeys
        /\ ClaimOf(browserCookie.value, "nbf") <= clock
        /\ clock < ClaimOf(browserCookie.value, "exp"))
       => /\ last.out.username = browserCookie.username
          /\ last.out.err = "nil"
          /\ last.out.resp = NoResponse

\* The three steps happened in a row for /pageB and alice: the state
\* token issued for /pageB completed a login, and the cookie of that login,
\* issued after the state token, was presented and alice returned.
C11_Witness ==
    /\ pendingState.held
    /\ pendingState.used
    /\ pendingState.url = "/pageB"
    /\ browserCookie.held
    /\ browserCookie.username = "alice"
    /\ ClaimOf(browserCookie.value, "iat") > ClaimOf(pendingState.value, "iat")
    /\ PresentedCookie(browserCookie.value)
    /\ last.req.url = "/pageB"
    /\ last.out.username = "alice"
    /\ last.out.resp = NoResponse

\* The cookie value v is a token whose signature verifies under a current
\* secret, whose claims decode, and whose issuer, subject and validity
\* window (not-before <= now < expiration) are right
ValidSessionToken(v) ==
    /\ Len(v) = 3
    /\ WellSigned(v)
    /\ Mistyped(v[2]) \cap CookieJWTFields = {}
    /\ ClaimOf(v, "iss") = appName
    /\ ClaimOf(v, "sub") = CookieSubject
    /\ ClaimOf(v, "nbf") <= clock
    /\ clock < ClaimOf(v, "exp")

\* C12: validateUserCookieValue returns an error exactly for a token whose
\* signature, issuer, subject and validity window are valid and whose
\* username is empty; for every other input that it refuses it returns the
\* empty username and a nil error; and getRemoteUserName answers the error
\* with a 500 and no redirect.
C12_ThreeWay ==
    PresentedCookieAny
    => LET v == last.req.cookie.value
           r == validateUserCookieValue(sharedSecrets, v, clock)
       IN  /\ (r.err # "nil")
                 <=> (ValidSessionToken(v) /\ ClaimOf(v, "username") = "")
           /\ ~ValidSessionToken(v) => r = [username |-> "", err |-> "nil"]
           /\ r.err # "nil"
                 => /\ last.out.err = r.err
                    /\ last.out.resp.status = StatusInternalServerError
                    /\ last.out.resp.redirect = "none"

\* A state token signed with a key that is never configured
WrongKeyToken ==
    CompactSerialize(MaxRotations + 2,
                     AnyClaims(appName, StateSubject, "", "/pageA", Inside(clock)))

\* C13: when no configured secret verifies the state token of a callback,
\* the error of JWTClaims is one single value: the error it returns for a
\* token signed with a wrong key, whether the key is wrong, the token was
\* tampered with or its claims do not decode, and whatever the number and
\* the order of the secrets.
C13_UniformError ==
    (/\ last.op = "callback"
     /\ last.req.method = "GET"
     /\ last.req.code # ""
     /\ Len(last.req.state) = 3
     /\ JWTClaims(sharedSecrets, ParseSigned(last.req.state), StateJWTFields).err # "nil")
    => last.out.stateErr
          = JWTClaims(sharedSecrets, ParseSigned(WrongKeyToken), StateJWTFields).err

\* No signing secret is configured: the list is empty or its first entry is
NoSigningSecret ==
    \/ Len(sharedSecrets) = 0
    \/ KeyLen(sharedSecrets[1]) < 1

\* C14: when no signing secret is configured, a request that makes
\* getRemoteUserName issue a state token, and a callback that gets as far
\* as issuing the session cookie, are answered with a 500: no token is
\* produced, no redirect written, and the middleware returns an error.
C14_MissingSecretIs500 ==
    /\ (/\ NoSigningSecret
        /\ last.op = "resolve"
        /\ NoVerifiedChain(last.req)
        /\ last.setHeaders # "error"
        /\ \/ ~last.req.cookie.present
           \/ validateUserCookieValue(sharedSecrets, last.req.cookie.value, clock)
                 = [username |-> "", err |-> "nil"])
       => /\ last.out.username = ""
          /\ last.out.err # "nil"
          /\ last.out.resp.status = StatusInternalServerError
          /\ last.out.resp.redirect = "none"
          /\ last.out.resp.state = NoToken
    /\ (/\ NoSigningSecret
        /\ last.op = "callback"
        /\ last.out.userinfoCalls = 1
        /\ GoodUserinfoReply(last.userinfoReply))
       => /\ last.out.resp.status = StatusInternalServerError
          /\ last.out.resp.redirect = "none"
          /\ ~last.out.resp.cookie.set

\* The state parameter of a callback handled at time now is missing, or
\* expired, or forged: tampered with, or signed with a key that is not
\* configured
StateFault(v, now) ==
    \/ v = EmptyString
    \/ Len(v) = 3 /\ ~WellSigned(v)
    \/ Len(v) = 3 /\ WellSigned(v) /\ ClaimOf(v, "exp") < now

\* C15: a GET callback with a code whose state token is missing, expired
\* or forged is not answered with an error status: it is redirected (302)
\* to the provider for a new login.
C15_StateFaultRelogin ==
    (/\ last.op = "callback"
     /\ last.req.method = "GET"
     /\ last.req.code # ""
     /\ StateFault(last.req.state, last.at))
    => /\ last.out.resp.status = StatusFound
       /\ last.out.resp.redirect = "provider"

\* The userinfo fields a username is taken from, in their order of priority
Precedence == <<"username", "login", "preferred_username", "email">>

\* The first non-empty field of userInfo in that order, or ""
FirstNonEmpty(userInfo) ==
    LET nonEmpty == {i \in 1 .. Len(Precedence) : userInfo[Precedence[i]] # ""}
    IN  IF nonEmpty = {}
        THEN ""
        ELSE userInfo[Precedence[CHOOSE i \in nonEmpty : \A j \in nonEmpty : i <= j]]

\* C16: for every combination of empty and non-empty userinfo fields,
\* getUsernameFromUserinfo returns the first non-empty of username, login,
\* preferred_username, email in that order; it returns "" exactly when the
\* four are empty; and the result is the same whatever sub and name are.
C16_Precedence ==
    last.op = "derive"
    => /\ last.out = FirstNonEmpty(last.userInfo)
       /\ (last.out = "") <=> (\A i \in 1 .. Len(Precedence) :
                                   last.userInfo[Precedence[i]] = "")
       /\ \A other \in AnyUserinfo :
             (\A i \in 1 .. Len(Precedence) :
                 other[Precedence[i]] = last.userInfo[Precedence[i]])
             => getUsernameFromUserinfo(other) = last.out

\* The userinfo {username: "", login: bob, preferred_username: carol,
\* email: d@x.com}, with a sub that is another user's name, gave bob.
C16_Witness ==
    /\ last.op = "derive"
    /\ last.userInfo.username = ""
    /\ last.userInfo.login = "bob"
    /\ last.userInfo.preferred_username = "carol"
    /\ last.userInfo.email = "d@x.com"
    /\ last.userInfo.sub = "alice"
    /\ last.out = "bob"

\* C17: in a callback the token endpoint is called only for a GET with a
\* non-empty code whose state validated; the userinfo endpoint only after
\* a token reply with a status below 300, token type Bearer and a
\* non-empty access token; the cookie is set only after a userinfo reply
\* with a status below 300 that decoded; and each endpoint is called at
\* most once.
C17_StepOrder ==
    last.op = "callback"
    => /\ last.out.tokenCalls <= 1
       /\ last.out.userinfoCalls <= 1
       /\ last.out.tokenCalls = 0 => last.tokenReply = NotCalled
       /\ last.out.userinfoCalls = 0 => last.userinfoReply = NotCalled
       /\ last.out.tokenCalls = 1
             => /\ last.req.method = "GET"
                /\ last.req.code # ""
                /\ last.out.stateErr = "nil"
                /\ WellSigned(last.req.state)
                /\ ClaimOf(last.req.state, "iss") = appName
                /\ ClaimOf(last.req.state, "sub") = StateSubject
                /\ ClaimOf(last.req.state, "nbf") <= last.at
                /\ last.at <= ClaimOf(last.req.state, "exp")
       /\ last.out.userinfoCalls = 1
             => /\ last.out.tokenCalls = 1
                /\ GoodTokenReply(last.tokenReply)
       /\ last.out.resp.cookie.set
             => /\ last.out.userinfoCalls = 1
                /\ GoodUserinfoReply(last.userinfoReply)

\* A callback with a valid state got status 300 from the token endpoint:
\* the userinfo endpoint was not called and no cookie set.
C17_Witness ==
    /\ last.op = "callback"
    /\ last.out.stateErr = "nil"
    /\ last.out.tokenCalls = 1
    /\ last.tokenReply.transport = "ok"
    /\ last.tokenReply.status = 300
    /\ last.tokenReply.body = GoodTokenBody
    /\ last.out.userinfoCalls = 0
    /\ last.userinfoReply = NotCalled
    /\ ~last.out.resp.cookie.set

\* C18: when the token endpoint or the userinfo endpoint, once called,
\* answers with a transport error, a status of 300 or more or a body that
\* is not JSON, or the token reply has another token type than "Bearer"
\* or an empty access token, the callback is answered with a 500-class
\* status, sets no session cookie and redirects nowhere.
C18_ProviderFault500 ==
    (/\ last.op = "callback"
     /\ \/ last.out.tokenCalls = 1 /\ ~GoodTokenReply(last.tokenReply)
        \/ last.out.userinfoCalls = 1 /\ ~GoodUserinfoReply(last.userinfoReply))
    => /\ last.out.resp.status >= StatusInternalServerError
       /\ last.out.resp.status < StatusInternalServerError + 100
       /\ ~last.out.resp.cookie.set
       /\ last.out.resp.redirect = "none"

\* A callback with a valid state got the token type "bearer" in lower case
\* from the token endpoint and was answered with 500.
C18_Witness ==
    /\ last.op = "callback"
    /\ last.out.tokenCalls = 1
    /\ last.tokenReply.transport = "ok"
    /\ last.tokenReply.status = 200
    /\ last.tokenReply.body.json
    /\ last.tokenReply.body.token_type = "bearer"
    /\ last.tokenReply.body.access_token # ""
    /\ last.out.resp.status = StatusInternalServerError

\* C19: every session token that setAndStoreAuthCookie issues has
\* issued-at = not-before = a reading of the clock during the issue, its
\* expiration is exactly cookieExpirationHours after its issued-at, and
\* the Expires attribute of the cookie is the expiration claim, also when
\* the clock advances while the cookie is issued.
C19_Lifetime ==
    (last.op = "callback" /\ last.out.resp.cookie.set)
    => LET v == last.out.resp.cookie.value
       IN  /\ ClaimOf(v, "iat") = ClaimOf(v, "nbf")
           /\ last.at <= ClaimOf(v, "iat")
           /\ ClaimOf(v, "iat") <= clock
           /\ ClaimOf(v, "exp")
                 = ClaimOf(v, "iat") + cookieExpirationHours * SecondsPerHour
           /\ last.out.resp.cookie.expires = ClaimOf(v, "exp")

\* C20: whenever getRemoteUserName returns a nil error, the username it
\* returns is not empty, on the certificate path as on the cookie path.
C20_NonEmptyIdentity ==
    (last.op = "resolve" /\ last.out.err = "nil")
    => last.out.username # ""

=============================================================================
